---- MODULE Spec2Model ----
(***************************************************************************)
(* Model of scraper_tools: proxy.py (StaticProxy.from_proxy_row,           *)
(* RotatingProxy, AIOProxyClient.request, ProxyFile.load, ProxyEnv,        *)
(* load_proxy_env) and functools.py (timeout, retry).                      *)
(*                                                                         *)
(* Python strings that are parsed (proxy rows, the port setting) are       *)
(* sequences of one-character strings; strings that are only compared      *)
(* (scheme, file path, messages) are TLA+ strings.                         *)
(***************************************************************************)
EXTENDS Integers, Sequences, FiniteSets, TLC

VARIABLES
    \* StaticProxy.from_proxy_row(row, scheme)
    row, scheme, rowResult,
    \* itertools.cycle held by RotatingProxy._proxies, and its callers
    proxies, cyc, nextCalls, returned,
    \* the last method called on the RotatingProxy and the descriptor it gave
    lastOp, converted,
    \* the AIOProxyClient.request coroutines over the RotatingProxy and the
    \* order in which they started running
    requests, started,
    \* the process environment, the proxy file and a call of a loader
    environ, fileExists, fileLines, called, loadResult,
    \* retry(attempts, delay, timeout_duration) around a function that raises
    \* on its first `failures` calls; each call runs `busy` ticks without
    \* awaiting and then awaits `work` ticks
    attempts, delay, timeout_duration, failures, busy, work,
    \* one call of the wrapper: position, local `attempt`, calls of the
    \* function, the clock since the call, the end of the current stretch of
    \* running or awaiting
    pc, attempt, call_count, now, wake, outcome

rowVars == <<row, scheme, rowResult>>
rotVars == <<proxies, cyc, nextCalls, returned, lastOp, converted>>
clientVars == <<requests, started>>
loadVars == <<environ, fileExists, fileLines, called, loadResult>>
retryParams == <<attempts, delay, timeout_duration, failures, busy, work>>
retryVars == <<attempts, delay, timeout_duration, failures, busy, work,
               pc, attempt, call_count, now, wake, outcome>>
vars == <<row, scheme, rowResult, proxies, cyc, nextCalls, returned,
          lastOp, converted, requests, started,
          environ, fileExists, fileLines, called, loadResult,
          attempts, delay, timeout_duration, failures, busy, work,
          pc, attempt, call_count, now, wake, outcome>>

----------------------------------------------------------------------------
\* Bounds
MaxRowLen == 6
MaxProxies == 3
MaxNextCalls == 7
MaxRequests == 3
MaxLines == 3
MaxAttempts == 3
MaxDelay == 2
MaxTimeout == 4
MaxWork == 2
MaxBusy == 2
\* Calls of the wrapped function after which the model stops a wrapper that
\* is still looping.
MaxCalls == MaxAttempts + 2

\* Characters a row is drawn from: a letter, two digits, the separator and
\* a whitespace character.
Alphabet == {"h", "0", "1", ":", " "}

Rows == UNION {[1..n -> Alphabet] : n \in 0..MaxRowLen}

\* Python's None, as a value comparable with character sequences.
None == <<"None">>

\* ProxyScheme = Literal["http", "socks5"]
ProxyScheme == {"http", "socks5"}

----------------------------------------------------------------------------
\* str.strip(), str.split(":"), int(str)

IsSpace(c) == c = " "

RECURSIVE lstrip(_)
lstrip(s) == IF s # <<>> /\ IsSpace(Head(s)) THEN lstrip(Tail(s)) ELSE s

RECURSIVE rstrip(_)
rstrip(s) ==
    IF s # <<>> /\ IsSpace(s[Len(s)]) THEN rstrip(SubSeq(s, 1, Len(s) - 1)) ELSE s

strip(s) == rstrip(lstrip(s))

RECURSIVE split(_)
split(s) ==
    IF \E i \in 1..Len(s) : s[i] = ":"
    THEN LET i == CHOOSE j \in 1..Len(s) :
                      s[j] = ":" /\ \A k \in 1..(j - 1) : s[k] # ":"
         IN  <<SubSeq(s, 1, i - 1)>> \o split(SubSeq(s, i + 1, Len(s)))
    ELSE <<s>>

IsDigit(c) == c \in {"0", "1"}

DigitValue(c) == IF c = "1" THEN 1 ELSE 0

RECURSIVE DecimalValue(_)
DecimalValue(s) ==
    IF s = <<>> THEN 0
    ELSE 10 * DecimalValue(SubSeq(s, 1, Len(s) - 1)) + DigitValue(s[Len(s)])

\* int(s): surrounding whitespace is ignored, then one or more digits.
int(s) ==
    LET t == strip(s)
    IN  IF t # <<>> /\ \A i \in 1..Len(t) : IsDigit(t[i])
        THEN [kind |-> "ok", value |-> DecimalValue(t)]
        ELSE [kind |-> "ValueError", msg |-> "invalid literal for int()"]

----------------------------------------------------------------------------
\* StaticProxy

StaticProxy(s, host, port, username, password) ==
    [scheme |-> s, host |-> host, port |-> port,
     username |-> username, password |-> password]

InvalidRow == [kind |-> "ValueError", msg |-> "Invalid proxy row"]

from_proxy_row_AnyCount(r, s) ==
    LET f == split(strip(r))
    IN  IF Len(f) >= 4
        THEN IF int(f[2]).kind = "ok"
             THEN [kind |-> "ok",
                   value |-> StaticProxy(s, f[1], int(f[2]).value, f[3], f[4])]
             ELSE int(f[2])
        ELSE IF Len(f) >= 2
        THEN IF int(f[2]).kind = "ok"
             THEN [kind |-> "ok",
                   value |-> StaticProxy(s, f[1], int(f[2]).value, None, None)]
             ELSE int(f[2])
        ELSE InvalidRow

from_proxy_row(r, s) ==
    LET f == split(strip(r))
    IN  IF Len(f) = 4
        THEN IF int(f[2]).kind = "ok"
             THEN [kind |-> "ok",
                   value |-> StaticProxy(s, f[1], int(f[2]).value, f[3], f[4])]
             ELSE int(f[2])
        ELSE IF Len(f) = 2
        THEN IF int(f[2]).kind = "ok"
             THEN [kind |-> "ok",
                   value |-> StaticProxy(s, f[1], int(f[2]).value, None, None)]
             ELSE int(f[2])
        ELSE InvalidRow

----------------------------------------------------------------------------
\* RotatingProxy: _proxies = cycle(proxies).__iter__()

\* The proxies a rotation is built from; the last one has a numeric host,
\* the default port of its scheme and empty credentials.
ProxySamples ==
    {StaticProxy("http", <<"h">>, 1, None, None),
     StaticProxy("http", <<"h">>, 10, <<"h">>, <<"h">>),
     StaticProxy("socks5", <<"h", "h">>, 11, None, None),
     StaticProxy("http", <<"0">>, 80, <<>>, <<>>)}

ProxyLists == UNION {[1..n -> ProxySamples] : n \in 0..MaxProxies}

StopIteration == [kind |-> "StopIteration"]

\* cycle(iterable): a live iterator over the iterable (pos items consumed),
\* the items saved so far and the index into the saved items.
cycle(src) == [pos |-> 0, live |-> TRUE, saved |-> <<>>, index |-> 0]

\* The counterpart of cycle_next that never wraps the index around.
cycle_next_NoWrap(c, src) ==
    IF c.live /\ c.pos < Len(src)
    THEN [item |-> [kind |-> "ok", value |-> src[c.pos + 1]],
          cyc  |-> [c EXCEPT !.pos = c.pos + 1,
                             !.saved = Append(c.saved, src[c.pos + 1])]]
    ELSE IF c.index >= Len(c.saved)
    THEN [item |-> StopIteration, cyc |-> [c EXCEPT !.live = FALSE]]
    ELSE [item |-> [kind |-> "ok", value |-> c.saved[c.index + 1]],
          cyc  |-> [c EXCEPT !.live = FALSE, !.index = c.index + 1]]

\* next(cycle): items of the source while it lasts, each saved; afterwards
\* the saved items, the index wrapping to 0 past the last one.
cycle_next(c, src) ==
    IF c.live /\ c.pos < Len(src)
    THEN [item |-> [kind |-> "ok", value |-> src[c.pos + 1]],
          cyc  |-> [c EXCEPT !.pos = c.pos + 1,
                             !.saved = Append(c.saved, src[c.pos + 1])]]
    ELSE IF Len(c.saved) = 0
    THEN [item |-> StopIteration, cyc |-> [c EXCEPT !.live = FALSE]]
    ELSE [item |-> [kind |-> "ok", value |-> c.saved[c.index + 1]],
          cyc  |-> [c EXCEPT !.live = FALSE,
                             !.index = IF c.index + 1 >= Len(c.saved)
                                       THEN 0 ELSE c.index + 1]]

----------------------------------------------------------------------------
\* StaticProxy.server, .playwright(), .httpx(), .url() and the methods of
\* the same names of RotatingProxy

Digits == <<"0", "1", "2", "3", "4", "5", "6", "7", "8", "9">>

\* str(n) for n >= 0, as in the f-string of StaticProxy.server.
RECURSIVE str(_)
str(n) == IF n < 10 THEN <<Digits[n + 1]>>
          ELSE str(n \div 10) \o <<Digits[(n % 10) + 1]>>

\* f"{self.scheme}://{self.host}:{self.port}"
server(p) == <<p.scheme, "://">> \o p.host \o <<":">> \o str(p.port)

\* Truth value of an optional string: None and "" are false.
Truthy(x) == x # None /\ x # <<>>

\* PlaywrightProxy is a TypedDict: the three values are stored as given.
playwright(p) ==
    [server |-> server(p), username |-> p.username, password |-> p.password]

\* Percent-encoding of the characters of the alphabet that neither the host
\* of an httpx.URL nor the userinfo of a Url takes as they are: the blank
\* and the colon.
RECURSIVE quote(_)
quote(s) ==
    IF s = <<>> THEN <<>>
    ELSE (CASE Head(s) = " " -> <<"%", "2", "0">>
            [] Head(s) = ":" -> <<"%", "3", "A">>
            [] OTHER -> <<Head(s)>>)
         \o quote(Tail(s))

\* The index of the first c in s, 0 when there is none.
IndexOf(s, c) ==
    IF \E i \in 1..Len(s) : s[i] = c
    THEN CHOOSE i \in 1..Len(s) :
            s[i] = c /\ \A j \in 1..(i - 1) : s[j] # c
    ELSE 0

\* The index of the last c in s, 0 when there is none.
LastIndexOf(s, c) ==
    IF \E i \in 1..Len(s) : s[i] = c
    THEN CHOOSE i \in 1..Len(s) :
            s[i] = c /\ \A j \in (i + 1)..Len(s) : s[j] # c
    ELSE 0

\* The text before the first c of s: all of s when there is none.
Before(s, c) ==
    IF IndexOf(s, c) = 0 THEN s ELSE SubSeq(s, 1, IndexOf(s, c) - 1)

\* The text after the first c of s: empty when there is none.
After(s, c) ==
    IF IndexOf(s, c) = 0 THEN <<>> ELSE SubSeq(s, IndexOf(s, c) + 1, Len(s))

\* A text of decimal digits, as the port of a URL has to be.
IsPortText(t) ==
    \A i \in 1..Len(t) : \E d \in 1..Len(Digits) : t[i] = Digits[d]

\* What follows "scheme://" in self.server.
Authority(p) == p.host \o <<":">> \o str(p.port)

\* httpx.InvalidURL(f"Invalid port: {port!r}")
InvalidURL(t) ==
    [kind |-> "InvalidURL", msg |-> <<"Invalid port: '">> \o t \o <<"'">>]

\* httpx.URL(server): the host is the authority up to its first colon and
\* the port the text after it, which has to be a number; the host is
\* percent-encoded and the default port of the scheme (http: 80, socks5:
\* none) dropped. The URL is written as "scheme:" and, when host and port
\* leave an authority to write, "//" and that authority.
httpx_URL(p) ==
    LET h == Before(Authority(p), ":")
        t == After(Authority(p), ":")
        authority == quote(h)
                     \o (IF p.scheme = "http" /\ p.port = 80 THEN <<>>
                         ELSE <<":">> \o t)
    IN  IF ~IsPortText(t) THEN InvalidURL(t)
        ELSE IF authority = <<>> THEN <<p.scheme, ":">>
        ELSE <<p.scheme, "://">> \o authority

\* httpx.Proxy(self.server, auth=(username, password) if both else None)
httpx(p) ==
    IF ~IsPortText(After(Authority(p), ":")) THEN httpx_URL(p)
    ELSE [url |-> httpx_URL(p),
          auth |-> IF Truthy(p.username) /\ Truthy(p.password)
                   THEN <<p.username, p.password>> ELSE None]

UrlError == [kind |-> "ValidationError", msg |-> "1 validation error for url"]

\* The port of Url.build is a 16-bit integer.
OverflowError ==
    [kind |-> "OverflowError",
     msg |-> "out of range integral type conversion attempted"]

RECURSIVE OctalValue(_)
OctalValue(s) ==
    IF s = <<>> THEN 0
    ELSE 8 * OctalValue(SubSeq(s, 1, Len(s) - 1)) + DigitValue(s[Len(s)])

\* A host of digits only; under http such a host is an IPv4 number.
IsNumber(h) == h # <<>> /\ \A i \in 1..Len(h) : IsDigit(h[i])

\* The IPv4 number parser: a leading 0 before further digits means octal.
IPv4Number(h) ==
    IF Len(h) >= 2 /\ h[1] = "0" THEN OctalValue(Tail(h)) ELSE DecimalValue(h)

\* An IPv4 address in dotted form.
DottedQuad(v) ==
    str(v \div 16777216) \o <<".">> \o str((v \div 65536) % 256) \o <<".">>
    \o str((v \div 256) % 256) \o <<".">> \o str(v % 256)

\* The host as the parsed URL has it: an http host of digits becomes an IPv4
\* address, any other host stays.
UrlHost(s, h) ==
    IF s = "http" /\ IsNumber(h) THEN DottedQuad(IPv4Number(h)) ELSE h

\* What Url.build writes after "scheme://": [username][:password][@]host:port
UrlHostParts(p) ==
    (IF p.username # None THEN p.username ELSE <<>>)
    \o (IF p.password # None THEN <<":">> \o p.password ELSE <<>>)
    \o (IF p.username # None \/ p.password # None THEN <<"@">> ELSE <<>>)
    \o p.host \o <<":">> \o str(p.port)

\* The userinfo the parser finds: what stands before the last @.
UserInfo(p) ==
    SubSeq(UrlHostParts(p), 1, LastIndexOf(UrlHostParts(p), "@") - 1)

\* The host and port the parser finds: what stands after the last @.
HostPort(p) ==
    SubSeq(UrlHostParts(p), LastIndexOf(UrlHostParts(p), "@") + 1,
           Len(UrlHostParts(p)))

\* Whether the parser accepts what Url.build wrote: the host, which ends at
\* the first colon, is not empty and has no blank, the text after that colon
\* is a port number that fits 16 bits, an IPv4 number fits 32 bits.
UrlParses(p) ==
    LET h == Before(HostPort(p), ":")
        t == After(HostPort(p), ":")
    IN  /\ h # <<>>
        /\ \A i \in 1..Len(h) : h[i] # " "
        /\ t # <<>> /\ IsPortText(t)
        /\ p.port <= 65535
        /\ (p.scheme = "http" /\ IsNumber(h)) =>
              IPv4Number(h) \div 65536 < 65536

\* The username of the parsed URL: the userinfo up to its first colon,
\* percent-encoded; None when empty.
UrlUsername(p) ==
    IF Before(UserInfo(p), ":") # <<>>
    THEN quote(Before(UserInfo(p), ":")) ELSE None

\* The password of the parsed URL: the userinfo after its first colon,
\* percent-encoded, further colons included; None when empty.
UrlPassword(p) ==
    IF After(UserInfo(p), ":") # <<>>
    THEN quote(After(UserInfo(p), ":")) ELSE None

\* Url.build(scheme, host, port, username, password): OverflowError for a
\* port beyond 16 bits; else the URL parsed from the text it wrote, the
\* username ending at the first colon of the userinfo, or a ValidationError.
url(p) ==
    IF p.port > 65535 THEN OverflowError
    ELSE IF UrlParses(p)
    THEN [kind |-> "Url",
          scheme |-> p.scheme,
          username |-> UrlUsername(p),
          password |-> UrlPassword(p),
          host |-> UrlHost(p.scheme, Before(HostPort(p), ":")),
          port |-> p.port]
    ELSE UrlError

\* Url.unicode_string(): scheme://[username][:password][@]host[:port][/],
\* without the port 80 of http and with the path / of http.
unicode_string(u) ==
    <<u.scheme, "://">>
    \o (IF u.username # None THEN u.username ELSE <<>>)
    \o (IF u.password # None THEN <<":">> \o u.password ELSE <<>>)
    \o (IF u.username # None \/ u.password # None THEN <<"@">> ELSE <<>>)
    \o u.host
    \o (IF u.scheme = "http" /\ u.port = 80 THEN <<>> ELSE <<":">> \o str(u.port))
    \o (IF u.scheme = "http" THEN <<"/">> ELSE <<>>)

\* The method `op` of a StaticProxy.
Convert(op, p) ==
    CASE op = "playwright" -> playwright(p)
      [] op = "httpx" -> httpx(p)
      [] op = "url" -> url(p)

\* `next(self).op()` that takes one element and converts the one after it.
next_then_AfterAdvance(c, src, op) ==
    LET r == cycle_next(c, src)
        q == cycle_next(r.cyc, src)
    IN  [item |-> r.item,
         cyc  |-> r.cyc,
         out  |-> IF q.item.kind = "ok" THEN Convert(op, q.item.value)
                  ELSE q.item]

\* RotatingProxy.playwright / .httpx / .url: `return next(self).op()`
next_then(c, src, op) ==
    LET r == cycle_next(c, src)
    IN  [item |-> r.item,
         cyc  |-> r.cyc,
         out  |-> IF r.item.kind = "ok" THEN Convert(op, r.item.value)
                  ELSE r.item]

----------------------------------------------------------------------------
\* AIOProxyClient.request

\* The keyword arguments of a caller: none, or a `proxy` of its own.
CallerKwargs == {[k \in {} |-> <<>>], [k \in {"proxy"} |-> <<"caller">>]}

\* `kwargs.setdefault("proxy", proxy_url_str)` in place of the assignment.
SetProxy_KeepCaller(kwargs, u) ==
    [k \in DOMAIN kwargs \cup {"proxy"} |->
        IF k \in DOMAIN kwargs THEN kwargs[k] ELSE u]

\* `kwargs["proxy"] = proxy_url_str`
SetProxy(kwargs, u) ==
    [k \in DOMAIN kwargs \cup {"proxy"} |-> IF k = "proxy" THEN u ELSE kwargs[k]]

----------------------------------------------------------------------------
\* ProxyFile, ProxyEnv (pydantic BaseSettings) and load_proxy_env

\* BaseSettings reads a field from the environment variable of its name; a
\* field without a default is required, whatever its type.
IsSet(env, name) == name \in DOMAIN env

ValidationError == [kind |-> "ValidationError"]
FileNotFoundError == [kind |-> "FileNotFoundError"]
EmptyFile == [kind |-> "ValueError", msg |-> "Proxy file is empty"]
NoValidSettings ==
    [kind |-> "Exception",
     msg |-> "No valid proxy settings found. Provide either variables for ...",
     mentions |-> {"ProxyEnv", "ProxyFile"}]

\* ProxyFile(): PROXY_FILE_PATH: str, PROXY_SCHEME: ProxyScheme = "http"
ProxyFile(env) ==
    IF /\ IsSet(env, "PROXY_FILE_PATH")
       /\ IsSet(env, "PROXY_SCHEME") => env["PROXY_SCHEME"] \in ProxyScheme
    THEN [kind |-> "ok",
          PROXY_FILE_PATH |-> env["PROXY_FILE_PATH"],
          PROXY_SCHEME |-> IF IsSet(env, "PROXY_SCHEME")
                           THEN env["PROXY_SCHEME"] ELSE "http"]
    ELSE ValidationError

\* ProxyEnv(): PROXY_HOST: str, PROXY_SCHEME: ProxyScheme, PROXY_PORT: int,
\* PROXY_USERNAME: str | None, PROXY_PASSWORD: str | None, none with a default.
ProxyEnv(env) ==
    IF /\ IsSet(env, "PROXY_HOST")
       /\ IsSet(env, "PROXY_SCHEME") /\ env["PROXY_SCHEME"] \in ProxyScheme
       /\ IsSet(env, "PROXY_PORT") /\ int(env["PROXY_PORT"]).kind = "ok"
       /\ IsSet(env, "PROXY_USERNAME")
       /\ IsSet(env, "PROXY_PASSWORD")
    THEN [kind |-> "ok",
          PROXY_HOST |-> env["PROXY_HOST"],
          PROXY_SCHEME |-> env["PROXY_SCHEME"],
          PROXY_PORT |-> int(env["PROXY_PORT"]).value,
          PROXY_USERNAME |-> env["PROXY_USERNAME"],
          PROXY_PASSWORD |-> env["PROXY_PASSWORD"]]
    ELSE ValidationError

\* ProxyEnv.proxy
proxy(cfg) ==
    StaticProxy(cfg.PROXY_SCHEME, cfg.PROXY_HOST, cfg.PROXY_PORT,
                cfg.PROXY_USERNAME, cfg.PROXY_PASSWORD)

\* The loop of ProxyFile.load that skips only the lines that are empty
\* before trimming.
RECURSIVE read_rows_SkipEmptyOnly(_, _)
read_rows_SkipEmptyOnly(lines, s) ==
    IF lines = <<>> THEN [kind |-> "ok", value |-> <<>>]
    ELSE IF Head(lines) = <<>> THEN read_rows_SkipEmptyOnly(Tail(lines), s)
    ELSE LET p == from_proxy_row(Head(lines), s)
             rest == read_rows_SkipEmptyOnly(Tail(lines), s)
         IN  IF p.kind # "ok" THEN p
             ELSE IF rest.kind # "ok" THEN rest
             ELSE [kind |-> "ok", value |-> <<p.value>> \o rest.value]

\* The loop of ProxyFile.load: every line that is non-blank after strip() is
\* parsed in file order; the first row that fails to parse ends the loop.
RECURSIVE read_rows(_, _)
read_rows(lines, s) ==
    IF lines = <<>> THEN [kind |-> "ok", value |-> <<>>]
    ELSE LET cleaned == strip(Head(lines))
         IN  IF cleaned = <<>> THEN read_rows(Tail(lines), s)
             ELSE LET p == from_proxy_row(cleaned, s)
                      rest == read_rows(Tail(lines), s)
                  IN  IF p.kind # "ok" THEN p
                      ELSE IF rest.kind # "ok" THEN rest
                      ELSE [kind |-> "ok", value |-> <<p.value>> \o rest.value]

\* random.shuffle(x): every reordering of x.
shuffle(x) ==
    {[i \in 1..Len(x) |-> x[f[i]]] :
        f \in {g \in [1..Len(x) -> 1..Len(x)] :
                  \A i, j \in 1..Len(x) : g[i] = g[j] => i = j}}

RotatingProxy(ps) == [kind |-> "RotatingProxy", proxies |-> ps]

\* ProxyFile.load: the set of its outcomes.
ProxyFile_load(cfg, exists, lines) ==
    IF ~exists THEN {FileNotFoundError}
    ELSE LET r == read_rows(lines, cfg.PROXY_SCHEME)
         IN  IF r.kind # "ok" THEN {r}
             ELSE IF r.value = <<>> THEN {EmptyFile}
             ELSE {RotatingProxy(ps) : ps \in shuffle(r.value)}

\* The second half of load_proxy_env with a final error that names only one
\* configuration shape.
load_from_ProxyEnv_ShortMessage(env) ==
    IF ProxyEnv(env).kind = "ok"
    THEN {[kind |-> "StaticProxy", value |-> proxy(ProxyEnv(env))]}
    ELSE {[NoValidSettings EXCEPT !.mentions = {"ProxyEnv"}]}

\* The second half of load_proxy_env: ProxyEnv().proxy(), or the final error.
load_from_ProxyEnv(env) ==
    IF ProxyEnv(env).kind = "ok"
    THEN {[kind |-> "StaticProxy", value |-> proxy(ProxyEnv(env))]}
    ELSE {NoValidSettings}

\* load_proxy_env with every exception of the file loader caught.
load_proxy_env_CatchAll(env, exists, lines) ==
    IF ProxyFile(env).kind # "ok" THEN load_from_ProxyEnv(env)
    ELSE UNION {IF r.kind = "RotatingProxy" THEN {r} ELSE load_from_ProxyEnv(env) :
                   r \in ProxyFile_load(ProxyFile(env), exists, lines)}

\* load_proxy_env with only ValidationError caught around the file loader.
load_proxy_env_MissingFileFatal(env, exists, lines) ==
    IF ProxyFile(env).kind # "ok" THEN load_from_ProxyEnv(env)
    ELSE ProxyFile_load(ProxyFile(env), exists, lines)

\* load_proxy_env: the set of its outcomes.
load_proxy_env(env, exists, lines) ==
    IF ProxyFile(env).kind # "ok" THEN load_from_ProxyEnv(env)
    ELSE UNION {IF r.kind = "FileNotFoundError" THEN load_from_ProxyEnv(env) ELSE {r} :
                   r \in ProxyFile_load(ProxyFile(env), exists, lines)}

----------------------------------------------------------------------------
\* functools.py: timeout and retry

\* `if timeout_duration:` wraps the whole wrapper in asyncio.timeout; the
\* deadline counts from the call of the wrapper (clock 0).
HasTimeout(T) == T # 0

Expired(T, t) == HasTimeout(T) /\ t >= T

\* `except Exception` written as a bare except.
Catches_Bare(exc) == TRUE

\* `except Exception`: the CancelledError that asyncio.timeout delivers is a
\* BaseException and passes through.
Catches(exc) == exc = "Exception"

\* `attempt < attempts - 1` with the bound off by one.
ShouldRetry_OffByOne(a, n) == a < n - 2

\* `if attempt < attempts - 1`
ShouldRetry(a, n) == a < n - 1

----------------------------------------------------------------------------
\* State of the parts a specification does not exercise.

NotCalled == [kind |-> "not called"]

RowIdle == row = <<>> /\ scheme = "http" /\ rowResult = NotCalled

RotIdle ==
    /\ proxies = <<>>
    /\ cyc = cycle(proxies)
    /\ nextCalls = 0
    /\ returned = NotCalled
    /\ lastOp = "none"
    /\ converted = NotCalled

ClientIdle ==
    /\ requests = <<>>
    /\ started = <<>>

RetryIdle ==
    /\ attempts = 1 /\ delay = 0 /\ timeout_duration = 0
    /\ failures = 0 /\ busy = 0 /\ work = 0
    /\ pc = "start" /\ attempt = 0 /\ call_count = 0
    /\ now = 0 /\ wake = 0 /\ outcome = NotCalled

LoadIdle ==
    /\ environ = <<>>
    /\ fileExists = FALSE
    /\ fileLines = <<>>
    /\ called = "none"
    /\ loadResult = NotCalled

----------------------------------------------------------------------------
\* Specification SpecRow: one call of StaticProxy.from_proxy_row.

InitRow ==
    /\ ClientIdle
    /\ row \in Rows
    /\ scheme \in ProxyScheme
    /\ rowResult = NotCalled
    /\ RotIdle
    /\ LoadIdle
    /\ RetryIdle

FromProxyRow ==
    /\ rowResult = NotCalled
    /\ rowResult' = from_proxy_row(row, scheme)
    /\ UNCHANGED <<row, scheme>>
    /\ UNCHANGED <<rotVars, loadVars, retryVars, clientVars>>

NextRow == FromProxyRow

SpecRow == InitRow /\ [][NextRow]_vars

----------------------------------------------------------------------------
\* Specification SpecRot: a RotatingProxy and the callers of next().

InitRot ==
    /\ ClientIdle
    /\ proxies \in ProxyLists
    /\ cyc = cycle(proxies)
    /\ nextCalls = 0
    /\ returned = NotCalled
    /\ lastOp = "none"
    /\ converted = NotCalled
    /\ RowIdle
    /\ LoadIdle
    /\ RetryIdle

\* RotatingProxy.__next__
RotatingNext ==
    /\ nextCalls < MaxNextCalls
    /\ returned' = cycle_next(cyc, proxies).item
    /\ cyc' = cycle_next(cyc, proxies).cyc
    /\ nextCalls' = nextCalls + 1
    /\ lastOp' = "next"
    /\ UNCHANGED <<proxies, converted>>
    /\ UNCHANGED <<rowVars, loadVars, retryVars, clientVars>>

\* A call of the conversion method `op` of the RotatingProxy.
RotatingConvert(op) ==
    /\ nextCalls < MaxNextCalls
    /\ returned' = next_then(cyc, proxies, op).item
    /\ cyc' = next_then(cyc, proxies, op).cyc
    /\ converted' = next_then(cyc, proxies, op).out
    /\ nextCalls' = nextCalls + 1
    /\ lastOp' = op
    /\ UNCHANGED proxies
    /\ UNCHANGED <<rowVars, loadVars, retryVars, clientVars>>

\* RotatingProxy.playwright
RotatingPlaywright == RotatingConvert("playwright")

\* RotatingProxy.httpx
RotatingHttpx == RotatingConvert("httpx")

\* RotatingProxy.url
RotatingUrl == RotatingConvert("url")

NextRot == RotatingNext \/ RotatingPlaywright \/ RotatingHttpx \/ RotatingUrl

SpecRot == InitRot /\ [][NextRot]_vars

----------------------------------------------------------------------------
\* Specification SpecClient: MaxRequests coroutines of AIOProxyClient.request
\* over one RotatingProxy, on one event loop. A coroutine runs from its
\* start to its only await, `self._client.request(...)`, without yielding;
\* the responses arrive in any order.

InitClient ==
    /\ proxies \in ProxyLists
    /\ cyc = cycle(proxies)
    /\ nextCalls = 0
    /\ returned = NotCalled
    /\ lastOp = "none"
    /\ converted = NotCalled
    /\ requests \in [1..MaxRequests ->
                        {[pc |-> "created", kwargs |-> kw, sent |-> NotCalled] :
                            kw \in CallerKwargs}]
    /\ started = <<>>
    /\ RowIdle
    /\ LoadIdle
    /\ RetryIdle

\* The event loop starts coroutine r: `self._proxy.url()`,
\* `.unicode_string()`, `kwargs["proxy"] = ...`, then the await of
\* `self._client.request(method, url, **kwargs)`. When url() raises (an
\* empty rotation, a proxy that is no URL) the coroutine fails.
RequestStart(r) ==
    /\ requests[r].pc = "created"
    /\ LET n == next_then(cyc, proxies, "url")
       IN  /\ returned' = n.item
           /\ cyc' = n.cyc
           /\ converted' = n.out
           /\ requests' =
                 IF n.item.kind = "ok" /\ n.out.kind = "Url"
                 THEN [requests EXCEPT
                          ![r].pc = "in flight",
                          ![r].sent = SetProxy(requests[r].kwargs,
                                               unicode_string(n.out))]
                 ELSE [requests EXCEPT ![r].pc = "failed"]
    /\ nextCalls' = nextCalls + 1
    /\ lastOp' = "url"
    /\ started' = Append(started, r)
    /\ UNCHANGED proxies
    /\ UNCHANGED <<rowVars, loadVars, retryVars>>

\* The response of request r arrives and the coroutine returns it.
RequestComplete(r) ==
    /\ requests[r].pc = "in flight"
    /\ requests' = [requests EXCEPT ![r].pc = "done"]
    /\ UNCHANGED <<started, rotVars, rowVars, loadVars, retryVars>>

NextClient ==
    \/ \E r \in 1..MaxRequests : RequestStart(r)
    \/ \E r \in 1..MaxRequests : RequestComplete(r)

SpecClient == InitClient /\ [][NextClient]_vars

----------------------------------------------------------------------------
\* Specification SpecLoad: an environment, a proxy file and one call of
\* load_proxy_env(), ProxyFile().load() or ProxyEnv().proxy().

SettingNames ==
    {"PROXY_FILE_PATH", "PROXY_SCHEME", "PROXY_HOST", "PROXY_PORT",
     "PROXY_USERNAME", "PROXY_PASSWORD"}

\* The lines a proxy file is made of: blank, host:port, a 4-field row with
\* surrounding whitespace, a row with a non-numeric port, a 3-field row.
LineSamples ==
    {<<" ">>,
     <<"h", ":", "1">>,
     <<" ", "h", ":", "1", "0", ":", "h", ":", "h", " ">>,
     <<"h", ":", "h">>,
     <<"h", ":", "1", ":", "h">>}

Files == UNION {[1..n -> LineSamples] : n \in 0..MaxLines}

InitLoad ==
    /\ ClientIdle
    /\ \E present \in SUBSET SettingNames,
          sc \in {"http", "socks5", "ftp"},
          pt \in {<<"1", "0">>, <<"h">>} :
          environ = [n \in present |->
                        CASE n = "PROXY_FILE_PATH" -> "proxies.txt"
                          [] n = "PROXY_SCHEME" -> sc
                          [] n = "PROXY_PORT" -> pt
                          [] n = "PROXY_HOST" -> <<"h">>
                          [] n = "PROXY_USERNAME" -> <<"0">>
                          [] n = "PROXY_PASSWORD" -> <<"1">>]
    /\ fileExists \in BOOLEAN
    /\ fileLines \in IF fileExists THEN Files ELSE {<<>>}
    /\ called = "none"
    /\ loadResult = NotCalled
    /\ RowIdle
    /\ RotIdle
    /\ RetryIdle

\* load_proxy_env()
LoadProxyEnv ==
    /\ called = "none"
    /\ called' = "load_proxy_env"
    /\ loadResult' \in load_proxy_env(environ, fileExists, fileLines)
    /\ UNCHANGED <<environ, fileExists, fileLines, rowVars, rotVars, retryVars,
                   clientVars>>

\* ProxyFile().load()
ProxyFileLoad ==
    /\ called = "none"
    /\ called' = "ProxyFile.load"
    /\ loadResult' \in IF ProxyFile(environ).kind = "ok"
                       THEN ProxyFile_load(ProxyFile(environ), fileExists, fileLines)
                       ELSE {ValidationError}
    /\ UNCHANGED <<environ, fileExists, fileLines, rowVars, rotVars, retryVars,
                   clientVars>>

\* ProxyEnv().proxy()
ProxyEnvProxy ==
    /\ called = "none"
    /\ called' = "ProxyEnv.proxy"
    /\ loadResult' = IF ProxyEnv(environ).kind = "ok"
                     THEN [kind |-> "StaticProxy", value |-> proxy(ProxyEnv(environ))]
                     ELSE ValidationError
    /\ UNCHANGED <<environ, fileExists, fileLines, rowVars, rotVars, retryVars,
                   clientVars>>

NextLoad == LoadProxyEnv \/ ProxyFileLoad \/ ProxyEnvProxy

SpecLoad == InitLoad /\ [][NextLoad]_vars

----------------------------------------------------------------------------
\* Specification SpecRetry: one call of a function wrapped by
\* retry(attempts, delay, timeout_duration). The clock advances while the
\* function runs without awaiting (pc "running") and while the wrapper is
\* suspended in an await, inside the function (pc "func") or in
\* asyncio.sleep(delay) (pc "sleep"). The callback of asyncio.timeout runs
\* on the event loop, so it takes effect only while the wrapper is
\* suspended.

InitRetry ==
    /\ ClientIdle
    /\ attempts \in 1..MaxAttempts
    /\ delay \in 0..MaxDelay
    /\ timeout_duration \in 0..MaxTimeout
    /\ failures \in 0..MaxCalls
    /\ busy \in 0..MaxBusy
    /\ work \in 0..MaxWork
    /\ pc = "start" /\ attempt = 0 /\ call_count = 0
    /\ now = 0 /\ wake = 0 /\ outcome = NotCalled
    /\ RowIdle
    /\ RotIdle
    /\ LoadIdle

\* The handler of the try statement for exception exc raised by call number
\* call_count: sleep and count the attempt, or re-raise.
Handler(exc) ==
    IF ShouldRetry(attempt, attempts)
    THEN IF delay # 0
         THEN /\ pc' = "sleep"
              /\ wake' = now + delay
              /\ UNCHANGED <<attempt, outcome>>
         ELSE /\ pc' = "loop"
              /\ attempt' = attempt + 1
              /\ UNCHANGED <<wake, outcome>>
    ELSE /\ pc' = "done"
         /\ outcome' = exc
         /\ UNCHANGED <<attempt, wake>>

\* The caller awaits the wrapper.
Call ==
    /\ pc = "start"
    /\ pc' = "loop"
    /\ UNCHANGED <<attempt, call_count, now, wake, outcome>>
    /\ UNCHANGED <<retryParams, rowVars, rotVars, loadVars, clientVars>>

\* `while True: attempt = 0; try: ... func(*args, **kwargs)`: the function
\* starts running.
StartAttempt ==
    /\ pc = "loop"
    /\ call_count < MaxCalls
    /\ attempt' = 0
    /\ call_count' = call_count + 1
    /\ pc' = "running"
    /\ wake' = now + busy
    /\ UNCHANGED <<now, outcome>>
    /\ UNCHANGED <<retryParams, rowVars, rotVars, loadVars, clientVars>>

\* A tick of the clock while the function runs without awaiting: the event
\* loop does not run, whatever the deadline of asyncio.timeout.
Run ==
    /\ pc = "running"
    /\ now < wake
    /\ now' = now + 1
    /\ UNCHANGED <<pc, attempt, call_count, wake, outcome>>
    /\ UNCHANGED <<retryParams, rowVars, rotVars, loadVars, clientVars>>

\* The function reaches its await and the wrapper is suspended.
FuncAwait ==
    /\ pc = "running" /\ now = wake
    /\ work # 0
    /\ pc' = "func"
    /\ wake' = now + work
    /\ UNCHANGED <<attempt, call_count, now, outcome>>
    /\ UNCHANGED <<retryParams, rowVars, rotVars, loadVars, clientVars>>

\* A tick of the clock while the wrapper is suspended.
Tick ==
    /\ pc \in {"func", "sleep"}
    /\ now < wake
    /\ ~Expired(timeout_duration, now)
    /\ now' = now + 1
    /\ UNCHANGED <<pc, attempt, call_count, wake, outcome>>
    /\ UNCHANGED <<retryParams, rowVars, rotVars, loadVars, clientVars>>

\* The function comes to its end: without having awaited, whatever the
\* clock says, or when its await ends before the deadline.
FuncEnds ==
    \/ pc = "running" /\ now = wake /\ work = 0
    \/ pc = "func" /\ now = wake /\ ~Expired(timeout_duration, now)

\* `return await func(*args, **kwargs)`: the call succeeds.
FuncReturn ==
    /\ FuncEnds
    /\ call_count > failures
    /\ pc' = "done"
    /\ outcome' = [kind |-> "return", value |-> call_count]
    /\ UNCHANGED <<attempt, call_count, now, wake>>
    /\ UNCHANGED <<retryParams, rowVars, rotVars, loadVars, clientVars>>

\* The call raises; `except Exception as e:` runs.
FuncRaise ==
    /\ FuncEnds
    /\ call_count <= failures
    /\ IF Catches("Exception")
       THEN Handler([kind |-> "raise", exc |-> call_count])
       ELSE /\ pc' = "done"
            /\ outcome' = [kind |-> "raise", exc |-> call_count]
            /\ UNCHANGED <<attempt, wake>>
    /\ UNCHANGED <<call_count, now>>
    /\ UNCHANGED <<retryParams, rowVars, rotVars, loadVars, clientVars>>

\* `await asyncio.sleep(delay)` ends; `attempt += 1`; back to the loop.
SleepDone ==
    /\ pc = "sleep" /\ now = wake
    /\ ~Expired(timeout_duration, now)
    /\ attempt' = attempt + 1
    /\ pc' = "loop"
    /\ UNCHANGED <<call_count, now, wake, outcome>>
    /\ UNCHANGED <<retryParams, rowVars, rotVars, loadVars, clientVars>>

\* The wrapper is suspended and the deadline of asyncio.timeout has passed,
\* during this await or before it began: the callback cancels the task and
\* CancelledError is raised at the await. Inside the function it meets the
\* try statement; inside the handler's sleep it propagates. What leaves the
\* wrapper is turned into TimeoutError.
Timeout ==
    /\ pc \in {"func", "sleep"}
    /\ Expired(timeout_duration, now)
    /\ IF pc = "func" /\ Catches("CancelledError")
       THEN Handler([kind |-> "raise", exc |-> call_count])
       ELSE /\ pc' = "done"
            /\ outcome' = [kind |-> "TimeoutError"]
            /\ UNCHANGED <<attempt, wake>>
    /\ UNCHANGED <<call_count, now>>
    /\ UNCHANGED <<retryParams, rowVars, rotVars, loadVars, clientVars>>

NextRetry ==
    \/ Call
    \/ StartAttempt
    \/ Run
    \/ FuncAwait
    \/ Tick
    \/ FuncReturn
    \/ FuncRaise
    \/ SleepDone
    \/ Timeout

SpecRetry == InitRetry /\ [][NextRetry]_vars

----------------------------------------------------------------------------
\* C8: from_proxy_row accepts a row exactly when, after trimming, it has 2 or
\* 4 colon-separated fields and the port field parses as an integer; a
\* 4-field row yields exactly its host, port, username and password, a
\* 2-field row yields username and password absent, and every other row
\* fails with a ValueError and yields no StaticProxy.

Colons(s) == Cardinality({i \in 1..Len(s) : s[i] = ":"})

\* The i-th colon-separated field of s, read off the colon positions.
Field(s, i) ==
    LET pos(k) == IF k = 0 THEN 0
                  ELSE IF k > Colons(s) THEN Len(s) + 1
                  ELSE CHOOSE j \in 1..Len(s) :
                         /\ s[j] = ":"
                         /\ Cardinality({m \in 1..j : s[m] = ":"}) = k
    IN  SubSeq(s, pos(i - 1) + 1, pos(i) - 1)

IsIntegerText(s) ==
    \E a, b \in 0..Len(s) :
        /\ a + b < Len(s)
        /\ \A i \in 1..Len(s) :
              IF i <= a \/ i > Len(s) - b THEN s[i] = " " ELSE s[i] \in {"0", "1"}

WellFormed(r) ==
    /\ Colons(strip(r)) \in {1, 3}
    /\ IsIntegerText(Field(strip(r), 2))

C8_RowAcceptedIffWellFormed ==
    rowResult # NotCalled =>
        LET t == strip(row)
        IN  /\ rowResult.kind = "ok" <=> WellFormed(row)
            /\ rowResult.kind # "ok" => rowResult.kind = "ValueError"
            /\ (rowResult.kind = "ok" /\ Colons(t) = 3) =>
                  /\ rowResult.value.scheme = scheme
                  /\ rowResult.value.host = Field(t, 1)
                  /\ int(Field(t, 2)).value = rowResult.value.port
                  /\ rowResult.value.username = Field(t, 3)
                  /\ rowResult.value.password = Field(t, 4)
            /\ (rowResult.kind = "ok" /\ Colons(t) = 1) =>
                  /\ rowResult.value.scheme = scheme
                  /\ rowResult.value.host = Field(t, 1)
                  /\ int(Field(t, 2)).value = rowResult.value.port
                  /\ rowResult.value.username = None
                  /\ rowResult.value.password = None

\* A 4-field row with surrounding whitespace has been accepted.
C8_Witness ==
    /\ rowResult # NotCalled
    /\ rowResult.kind = "ok"
    /\ Colons(row) = 3
    /\ row # strip(row)
    /\ rowResult.value.host # <<>>
    /\ rowResult.value.port = 1

----------------------------------------------------------------------------
\* C2: for a RotatingProxy built from n >= 1 proxies, the k-th call of next()
\* returns the element at index (k-1) mod n of the construction order, and
\* the rotation never ends.
C2_KthNextIsKMinus1ModN ==
    (Len(proxies) >= 1 /\ nextCalls >= 1) =>
        /\ returned.kind = "ok"
        /\ returned.value = proxies[((nextCalls - 1) % Len(proxies)) + 1]

\* The fourth call on a rotation of three distinct proxies returned the
\* first one again.
C2_Witness ==
    /\ Len(proxies) = 3
    /\ Cardinality({proxies[i] : i \in 1..3}) = 3
    /\ nextCalls = 4
    /\ returned.kind = "ok"
    /\ returned.value = proxies[1]

----------------------------------------------------------------------------
\* Vocabulary of the loader claims, read off the environment and the file.

Has(name) == name \in DOMAIN environ

FileModeConfigured ==
    /\ Has("PROXY_FILE_PATH")
    /\ Has("PROXY_SCHEME") => environ["PROXY_SCHEME"] \in {"http", "socks5"}

ConfiguredScheme ==
    IF Has("PROXY_SCHEME") THEN environ["PROXY_SCHEME"] ELSE "http"

EnvModeValid ==
    /\ Has("PROXY_HOST") /\ Has("PROXY_PORT") /\ Has("PROXY_SCHEME")
    /\ Has("PROXY_USERNAME") /\ Has("PROXY_PASSWORD")
    /\ environ["PROXY_SCHEME"] \in {"http", "socks5"}
    /\ IsIntegerText(environ["PROXY_PORT"])

IsBlank(l) == \A i \in 1..Len(l) : l[i] = " "

NonBlankLines == SelectSeq(fileLines, LAMBDA l : ~IsBlank(l))

HasMalformedRow ==
    \E i \in 1..Len(NonBlankLines) : ~WellFormed(NonBlankLines[i])

Occurrences(x, seq) == Cardinality({i \in 1..Len(seq) : seq[i] = x})

IsPermutation(a, b) ==
    /\ Len(a) = Len(b)
    /\ \A i \in 1..Len(a) : Occurrences(a[i], a) = Occurrences(a[i], b)

\* C3: with the file loader configured and the file present, a malformed row
\* or a file without non-blank rows makes load_proxy_env fail with that
\* ValueError; it returns neither the StaticProxy of the env settings nor a
\* RotatingProxy of the well-formed rows.
C3_BrokenFileIsFatal ==
    (called = "load_proxy_env" /\ Has("PROXY_FILE_PATH") /\ fileExists
        /\ (HasMalformedRow \/ NonBlankLines = <<>>)) =>
        /\ loadResult.kind \notin {"StaticProxy", "RotatingProxy"}
        /\ FileModeConfigured =>
              /\ loadResult.kind = "ValueError"
              /\ HasMalformedRow =>
                    loadResult.msg \in {"Invalid proxy row",
                                        "invalid literal for int()"}
              /\ NonBlankLines = <<>> => loadResult.msg = "Proxy file is empty"

\* load_proxy_env failed on a file with a well-formed and a malformed row
\* although the env settings are all valid.
C3_Witness ==
    /\ called = "load_proxy_env"
    /\ FileModeConfigured /\ fileExists /\ EnvModeValid
    /\ HasMalformedRow
    /\ \E i \in 1..Len(NonBlankLines) : WellFormed(NonBlankLines[i])
    /\ loadResult.kind = "ValueError"

\* C4: without a file path, or with the path of a file that does not exist,
\* load_proxy_env falls through to the env loader and, when the env
\* settings validate, returns the StaticProxy of exactly those settings.
C4_FallThroughToEnv ==
    (called = "load_proxy_env" /\ (~Has("PROXY_FILE_PATH") \/ ~fileExists)
        /\ EnvModeValid) =>
        /\ loadResult.kind = "StaticProxy"
        /\ loadResult.value.scheme = environ["PROXY_SCHEME"]
        /\ loadResult.value.host = environ["PROXY_HOST"]
        /\ loadResult.value.port = DecimalValue(strip(environ["PROXY_PORT"]))
        /\ loadResult.value.username = environ["PROXY_USERNAME"]
        /\ loadResult.value.password = environ["PROXY_PASSWORD"]

\* The file path is set, the file is missing, and the env proxy came back.
C4_Witness ==
    /\ called = "load_proxy_env"
    /\ Has("PROXY_FILE_PATH") /\ ~fileExists /\ EnvModeValid
    /\ loadResult.kind = "StaticProxy"
    /\ loadResult.value.port = 10

\* C5: with host, scheme and port set and neither username nor password set,
\* the env loader, and load_proxy_env without a file path, yield a
\* StaticProxy with username and password absent.
C5_CredentialsOptional ==
    (/\ called \in {"ProxyEnv.proxy", "load_proxy_env"}
     /\ ~Has("PROXY_FILE_PATH")
     /\ Has("PROXY_HOST") /\ Has("PROXY_PORT") /\ Has("PROXY_SCHEME")
     /\ environ["PROXY_SCHEME"] \in {"http", "socks5"}
     /\ IsIntegerText(environ["PROXY_PORT"])
     /\ ~Has("PROXY_USERNAME") /\ ~Has("PROXY_PASSWORD")) =>
        /\ loadResult.kind = "StaticProxy"
        /\ loadResult.value.username = None
        /\ loadResult.value.password = None

\* C6: with no file path and a required env setting missing, load_proxy_env
\* fails with the 'No valid proxy settings found' error that names ProxyEnv
\* and ProxyFile.
C6_NoSettingsError ==
    (called = "load_proxy_env" /\ ~Has("PROXY_FILE_PATH")
        /\ (~Has("PROXY_HOST") \/ ~Has("PROXY_PORT") \/ ~Has("PROXY_SCHEME"))) =>
        /\ loadResult.kind = "Exception"
        /\ loadResult.msg =
              "No valid proxy settings found. Provide either variables for ..."
        /\ loadResult.mentions = {"ProxyEnv", "ProxyFile"}

\* load_proxy_env was called with an empty environment and failed.
C6_Witness ==
    /\ called = "load_proxy_env"
    /\ DOMAIN environ = {}
    /\ loadResult.kind = "Exception"

\* C7: ProxyFile.load on a file whose non-blank lines are all well-formed
\* returns a RotatingProxy over a permutation of exactly the proxies parsed
\* from the non-blank lines, each with the configured scheme and without the
\* whitespace around its line; on a file without non-blank lines it fails
\* with 'Proxy file is empty'.
C7_LoadIsPermutationOfRows ==
    (called = "ProxyFile.load" /\ FileModeConfigured /\ fileExists
        /\ ~HasMalformedRow) =>
        IF NonBlankLines = <<>>
        THEN loadResult = [kind |-> "ValueError", msg |-> "Proxy file is empty"]
        ELSE /\ loadResult.kind = "RotatingProxy"
             /\ IsPermutation(loadResult.proxies,
                   [i \in 1..Len(NonBlankLines) |->
                       from_proxy_row(NonBlankLines[i], ConfiguredScheme).value])
             /\ \A i \in 1..Len(loadResult.proxies) :
                   LET p == loadResult.proxies[i]
                   IN  /\ p.scheme = ConfiguredScheme
                       /\ p.host # <<>> => p.host[1] # " "
                       /\ (p.password # None /\ p.password # <<>>) =>
                              p.password[Len(p.password)] # " "

\* A file with a blank line and two different rows was loaded, and the
\* rotation starts with the proxy of the later row.
C7_Witness ==
    /\ called = "ProxyFile.load"
    /\ loadResult.kind = "RotatingProxy"
    /\ Len(fileLines) = 3 /\ Len(NonBlankLines) = 2
    /\ IsBlank(fileLines[1])
    /\ loadResult.proxies[1] # loadResult.proxies[2]
    /\ loadResult.proxies[1] = from_proxy_row(fileLines[3], ConfiguredScheme).value
    /\ loadResult.proxies[1].scheme = "socks5"

----------------------------------------------------------------------------
\* The wrapped function raises on every call the model makes.
AlwaysFails == failures >= MaxCalls

\* C1: a function that raises on every call is invoked exactly `attempts`
\* times by retry(attempts=attempts), never attempts + 1 times, and the
\* wrapper then re-raises the last exception.
C1_ExactlyAttemptsCalls ==
    (AlwaysFails /\ timeout_duration = 0) =>
        /\ call_count <= attempts
        /\ pc = "done" =>
              /\ call_count = attempts
              /\ outcome = [kind |-> "raise", exc |-> attempts]

\* C9 as stated: once timeout_duration has elapsed since the call of the
\* wrapper while it is in an attempt or in the sleep between attempts, the
\* wrapper ends with TimeoutError without another call of the function; a
\* call of the function only ever starts before that time.
C9_TimeoutBoundsWholeSequence ==
    [][/\ (timeout_duration # 0 /\ now >= timeout_duration
              /\ pc \in {"func", "sleep"}) =>
             /\ pc' = "done"
             /\ outcome' = [kind |-> "TimeoutError"]
             /\ call_count' = call_count
       /\ (timeout_duration # 0 /\ call_count' # call_count) =>
             now < timeout_duration]_vars

\* C9, amended: the deadline counts from the call of the wrapper over all
\* attempts and sleeps, and it takes effect where the wrapper is suspended:
\* when timeout_duration has elapsed and the wrapper is suspended in an await
\* of the function or in the sleep between attempts, the wrapper ends with
\* TimeoutError without another call of the function. A call of the
\* function starts at or after the deadline only when neither the function
\* nor the handler awaits (work = 0, delay = 0).
C9_TimeoutAtSuspension ==
    [][/\ (timeout_duration # 0 /\ now >= timeout_duration
              /\ pc \in {"func", "sleep"}) =>
             /\ pc' = "done"
             /\ outcome' = [kind |-> "TimeoutError"]
             /\ call_count' = call_count
       /\ (timeout_duration # 0 /\ call_count' # call_count
              /\ now >= timeout_duration) =>
             work = 0 /\ delay = 0]_vars

\* The deadline passed while the second call of the function was running
\* without awaiting; the timeout ended the wrapper at the next await, after
\* the deadline.
C9_Witness ==
    /\ pc = "done"
    /\ outcome = [kind |-> "TimeoutError"]
    /\ call_count >= 2
    /\ now > timeout_duration

\* C10: when the function raises on its first k < attempts calls and then
\* succeeds, the wrapper returns the result of call k + 1, the function has
\* been called exactly k + 1 times and no exception of the function reaches
\* the caller.
C10_ReturnsFirstSuccess ==
    failures < attempts =>
        /\ call_count <= failures + 1
        /\ outcome.kind # "raise"
        /\ outcome.kind = "return" =>
              outcome.value = failures + 1 /\ call_count = failures + 1
        /\ (pc = "done" /\ timeout_duration = 0) => outcome.kind = "return"

\* The wrapper returned the result of the third call after two failures.
C10_Witness ==
    /\ pc = "done"
    /\ timeout_duration = 0
    /\ failures = 2 /\ attempts = 3
    /\ outcome = [kind |-> "return", value |-> 3]
    /\ call_count = 3

----------------------------------------------------------------------------
ConversionOps == {"playwright", "httpx", "url"}

\* The 0-based position in the construction order of the element the next
\* call of next() takes.
Cursor == IF cyc.live /\ cyc.pos < Len(proxies) THEN cyc.pos ELSE cyc.index

AllDistinct(seq) == Cardinality({seq[i] : i \in 1..Len(seq)}) = Len(seq)

PositionOf(x, seq) == CHOOSE i \in 1..Len(seq) : seq[i] = x

\* C11: every call of url(), httpx() or playwright() of a RotatingProxy
\* converts the element that was at the cursor before the call and advances
\* the cursor by exactly one position; on n >= 2 distinct proxies two
\* consecutive conversion calls, of the same or of different kinds, are
\* served by different, cyclically adjacent proxies.
C11_ConversionAdvancesByOne ==
    [][(lastOp' \in ConversionOps /\ nextCalls' # nextCalls
           /\ Len(proxies) >= 1) =>
          /\ converted' = Convert(lastOp', proxies[Cursor + 1])
          /\ returned' = [kind |-> "ok", value |-> proxies[Cursor + 1]]
          /\ Cursor' = (Cursor + 1) % Len(proxies)
          /\ (lastOp \in ConversionOps /\ Len(proxies) >= 2
                 /\ AllDistinct(proxies)) =>
                /\ returned'.value # returned.value
                /\ returned'.value =
                      proxies[(PositionOf(returned.value, proxies)
                                  % Len(proxies)) + 1]]_vars

\* The fourth call on three distinct proxies was playwright() and gave the
\* descriptor of the first proxy again.
C11_Witness ==
    /\ Len(proxies) = 3 /\ AllDistinct(proxies)
    /\ nextCalls = 4
    /\ lastOp = "playwright"
    /\ converted = playwright(proxies[1])
    /\ returned.value = proxies[1]

----------------------------------------------------------------------------
\* The URL string of the proxy at 0-based index i of the construction order.
ProxyUrlAt(i) == unicode_string(url(proxies[i + 1]))

\* C12: with several request coroutines in flight over one RotatingProxy of
\* n proxies, under every interleaving the i-th request to start is sent
\* through the proxy at index (i-1) mod n, whatever the order of completion
\* and whatever `proxy` the caller passed; every request consumes exactly one
\* cursor position.
C12_IthRequestUsesIthProxy ==
    Len(proxies) >= 1 =>
        /\ nextCalls = Len(started)
        /\ Cursor = Len(started) % Len(proxies)
        /\ \A i \in 1..Len(started) :
              /\ requests[started[i]].pc \in {"in flight", "done"}
              /\ DOMAIN requests[started[i]].sent =
                    DOMAIN requests[started[i]].kwargs \cup {"proxy"}
              /\ requests[started[i]].sent["proxy"] =
                    ProxyUrlAt((i - 1) % Len(proxies))
        /\ \A r \in 1..MaxRequests :
              requests[r].pc # "created" => \E i \in 1..Len(started) : started[i] = r

\* Three requests over two distinct proxies started in the order 2, 1, 3;
\* the second to start has completed while the first is still in flight, and
\* the first had a `proxy` of the caller, now replaced.
C12_Witness ==
    /\ Len(proxies) = 2 /\ AllDistinct(proxies)
    /\ started = <<2, 1, 3>>
    /\ requests[2].pc = "in flight"
    /\ requests[1].pc = "done"
    /\ "proxy" \in DOMAIN requests[2].kwargs
    /\ requests[2].sent["proxy"] = ProxyUrlAt(0)
    /\ requests[3].sent["proxy"] = ProxyUrlAt(0)
    /\ requests[1].sent["proxy"] # ProxyUrlAt(0)

====
